---- MODULE Spec2Model ----
(***************************************************************************)
(* BTM: snapshot / rollback / listing / explicit prune of a data volume,   *)
(* as orchestrated by BtmCfg (src/src/lib.rs).  The backend drivers        *)
(* (driver::zfs, driver::btrfs, driver::external) are not part of the      *)
(* available sources: their shell sequences are taken from the "Inner      *)
(* Operations" documentation of SnapMode, their validation steps from the  *)
(* design document.                                                        *)
(***************************************************************************)
EXTENDS Integers, Sequences, FiniteSets, TLC

\* ---------------------------------------------------------------- bounds
\* block heights used as snapshot identifiers: 0..MaxHeight
MaxHeight == 2
\* values of cap_clean_kept explored: 0..MaxKept
MaxKept == 2
\* heights handed to the retention policy on its own: 0..MaxPolicyHeight
MaxPolicyHeight == 10
\* small capacities handed to the retention policy: 0..MaxPolicyCap
MaxPolicyCap == 3
\* heights a node takes automatic snapshots at: 0..MaxNodeHeight
MaxNodeHeight == 4
\* small capacities of a node: 0..MaxNodeCap
MaxNodeCap == 2

\* ------------------------------------------------------- program constants
\* default of BtmCfg.cap
DefaultCap == 100
\* Maximum number of snapshots that can be kept
CAP_MAX == 4096
\* `itv.pow(i)`, only useful in `SnapAlgo::Fade` alfo
STEP_CNT == 10
\* default of BtmCfg.itv
DefaultItv == 10
\* Option<u64>::None for the `idx` argument of rollback
None == -1
\* "no snapshot under this name" in the snapshot store
NoSnap == "NoSnap"

Heights == 0..MaxHeight
\* contents of the data volume: two distinguishable values (no operation
\* ever inspects the contents, it only copies them)
Data == {"A", "B"}
Modes == {"Zfs", "Btrfs", "External"}
\* values of cap explored: none kept, and the default
CapValues == {0, DefaultCap}
Algos == {"Fair", "Fade"}
\* values of itv explored
ItvValues == {1, 2, DefaultItv}
\* values of cap on either side of CAP_MAX
ClampCaps == {CAP_MAX - 1, CAP_MAX, CAP_MAX + 1, 10000}
PolicyCaps == (0..MaxPolicyCap) \cup {DefaultCap}

\* every value a BtmCfg can take within the bounds
BtmCfg ==
    [enable : BOOLEAN, itv : ItvValues,
     cap : CapValues \cup PolicyCaps \cup ClampCaps,
     cap_clean_kept : 0..MaxKept, mode : Modes, algo : Algos,
     volume : {"zfs/data"}]

\* BtmCfg::new(): enabled, everything else as Default
new ==
    [enable |-> TRUE, itv |-> DefaultItv, cap |-> DefaultCap,
     cap_clean_kept |-> 0, mode |-> "Zfs", algo |-> "Fair",
     volume |-> "zfs/data"]

VARIABLES
    cfg,    \* the BtmCfg in use
    store,  \* snapshots of the volume: height -> contents captured, or NoSnap
    vol,    \* live contents of the data volume
    op,     \* the last operation requested
    arg,    \* its arguments
    res,    \* its result
    out,    \* the list returned by the last get_sorted_snapshots
    log     \* what the last operation did: sync and tool commands, in order

vars == <<cfg, store, vol, op, arg, res, out, log>>

\* ------------------------------------------------------------- helpers
Snaps(st) == {h \in DOMAIN st : st[h] # NoSnap}

Ev(c, h, ok) == [cmd |-> c, h |-> h, ok |-> ok]

NoArg == [idx |-> None, strict |-> FALSE]

\* Vec<u64> sorted in 'DESC' order
RECURSIVE SortDesc(_)
SortDesc(S) ==
    IF S = {} THEN <<>>
    ELSE LET m == CHOOSE x \in S : \A y \in S : y <= x
         IN  <<m>> \o SortDesc(S \ {m})

\* Iterator::skip(n)
Skip(s, n) == IF n >= Len(s) THEN <<>> ELSE SubSeq(s, n + 1, Len(s))

\* Iterator::rev()
Rev(s) == [i \in 1..Len(s) |-> s[Len(s) + 1 - i]]

Range(s) == {s[i] : i \in 1..Len(s)}

\* what an operation leaves behind
Outcome(r, st, v, l) == [res |-> r, store |-> st, vol |-> v, log |-> l]

\* the outcomes of the (at most two) tool commands of one driver call
OkSeqs == [1..2 -> BOOLEAN]
AllOk == [i \in 1..2 |-> TRUE]
Fail1 == [i \in 1..2 |-> i # 1]
Fail2 == [i \in 1..2 |-> i # 2]

\* ------------------------------------------------------ backend drivers
\* zfs_gen_snapshot without the leading `zfs destroy`: a name collision fails
zfs_gen_snapshot_no_destroy(h, oks) ==
    LET s_ok == store[h] = NoSnap /\ oks[2]
    IN  Outcome(IF s_ok THEN "Ok" ELSE "SnapshotCreateFailed",
                IF s_ok THEN [store EXCEPT ![h] = vol] ELSE store, vol,
                <<Ev("zfs snapshot", h, s_ok)>>)

\* zfs destroy <volume>@<h> 2>/dev/null ; zfs snapshot <volume>@<h>
zfs_gen_snapshot(h, oks) ==
    LET d_ok == store[h] # NoSnap /\ oks[1]
        st1  == IF d_ok THEN [store EXCEPT ![h] = NoSnap] ELSE store
        s_ok == st1[h] = NoSnap /\ oks[2]
        st2  == IF s_ok THEN [st1 EXCEPT ![h] = vol] ELSE st1
    IN  Outcome(IF s_ok THEN "Ok" ELSE "SnapshotCreateFailed", st2, vol,
                <<Ev("zfs destroy", h, d_ok), Ev("zfs snapshot", h, s_ok)>>)

\* rm -rf <volume>@<h> 2>/dev/null ; btrfs subvolume snapshot <volume> <volume>@<h>
btrfs_gen_snapshot(h, oks) ==
    LET d_ok == oks[1]
        st1  == IF d_ok THEN [store EXCEPT ![h] = NoSnap] ELSE store
        s_ok == st1[h] = NoSnap /\ oks[2]
        st2  == IF s_ok THEN [st1 EXCEPT ![h] = vol] ELSE st1
    IN  Outcome(IF s_ok THEN "Ok" ELSE "SnapshotCreateFailed", st2, vol,
                <<Ev("rm -rf", h, d_ok), Ev("btrfs subvolume snapshot", h, s_ok)>>)

\* the out-of-process tool takes the snapshot (overwriting one at the same height)
external_gen_snapshot(h, oks) ==
    IF oks[2]
    THEN Outcome("Ok", [store EXCEPT ![h] = vol], vol,
                 <<Ev("external::gen_snapshot", h, TRUE)>>)
    ELSE Outcome("SnapshotCreateFailed", store, vol,
                 <<Ev("external::gen_snapshot", h, FALSE)>>)

\* list_snapshots of a driver: exactly the retained heights, descending
zfs_sorted_snapshots == [res |-> "Ok", list |-> SortDesc(Snaps(store))]

btrfs_sorted_snapshots == [res |-> "Ok", list |-> SortDesc(Snaps(store))]

\* Validating: the target of a rollback, or why there is none
Validate(idx, strict) ==
    LET S == Snaps(store)
        target == IF idx # None THEN idx
                  ELSE IF S = {} THEN None
                  ELSE CHOOSE x \in S : \A y \in S : y <= x
    IN  IF target \notin S
        THEN [res |-> "TargetNotFound", target |-> target]
        ELSE IF strict /\ \E n \in S : n > target
        THEN [res |-> "StrictRollbackRejected", target |-> target]
        ELSE [res |-> "Ok", target |-> target]

\* zfs rollback -r <volume>@<t>: revert, destroying every more recent snapshot
zfs_revert(t, oks, junk) ==
    IF oks[1]
    THEN Outcome("Ok", [h \in Heights |-> IF h > t THEN NoSnap ELSE store[h]],
                 store[t], <<Ev("zfs rollback -r", t, TRUE)>>)
    ELSE Outcome("RollbackFailed", store, junk, <<Ev("zfs rollback -r", t, FALSE)>>)

\* rm -rf <volume> || exit 1 ; btrfs subvolume snapshot <volume>@<t> <volume>
btrfs_revert(t, oks, junk) ==
    IF ~oks[1]
    THEN Outcome("RollbackFailed", store, junk, <<Ev("rm -rf volume", t, FALSE)>>)
    ELSE IF ~oks[2]
    THEN Outcome("RollbackFailed", store, junk,
                 <<Ev("rm -rf volume", t, TRUE),
                   Ev("btrfs subvolume snapshot back", t, FALSE)>>)
    ELSE Outcome("Ok", store, store[t],
                 <<Ev("rm -rf volume", t, TRUE),
                   Ev("btrfs subvolume snapshot back", t, TRUE)>>)

zfs_rollback(idx, strict, oks, junk) ==
    LET v == Validate(idx, strict)
    IN  IF v.res # "Ok" THEN Outcome(v.res, store, vol, <<>>)
        ELSE zfs_revert(v.target, oks, junk)

btrfs_rollback(idx, strict, oks, junk) ==
    LET v == Validate(idx, strict)
    IN  IF v.res # "Ok" THEN Outcome(v.res, store, vol, <<>>)
        ELSE btrfs_revert(v.target, oks, junk)

\* ------------------------------------------------------------- BtmCfg
\* get_cap returning the configured capacity as it is
get_cap_unclamped == cfg.cap

\* alt!(self.cap > CAP_MAX, CAP_MAX, self.cap)
get_cap == IF cfg.cap > CAP_MAX THEN CAP_MAX ELSE cfg.cap

\* snapshot without the `enable` guard
snapshot_unguarded(idx, oks) ==
    LET r == CASE cfg.mode = "Zfs" -> zfs_gen_snapshot(idx, oks)
               [] cfg.mode = "Btrfs" -> btrfs_gen_snapshot(idx, oks)
               [] cfg.mode = "External" -> external_gen_snapshot(idx, oks)
    IN  [r EXCEPT !.log = <<Ev("sync", None, TRUE)>> \o r.log]

\* snapshot flushing after the driver took the snapshot
snapshot_sync_after(idx, oks) ==
    IF ~cfg.enable THEN Outcome("Ok", store, vol, <<>>)
    ELSE LET r == CASE cfg.mode = "Zfs" -> zfs_gen_snapshot(idx, oks)
                    [] cfg.mode = "Btrfs" -> btrfs_gen_snapshot(idx, oks)
                    [] cfg.mode = "External" -> external_gen_snapshot(idx, oks)
         IN  [r EXCEPT !.log = r.log \o <<Ev("sync", None, TRUE)>>]

\* BtmCfg::snapshot
snapshot(idx, oks) ==
    IF ~cfg.enable THEN Outcome("Ok", store, vol, <<>>)
    ELSE LET r == CASE cfg.mode = "Zfs" -> zfs_gen_snapshot(idx, oks)
                    [] cfg.mode = "Btrfs" -> btrfs_gen_snapshot(idx, oks)
                    [] cfg.mode = "External" -> external_gen_snapshot(idx, oks)
         IN  [r EXCEPT !.log = <<Ev("sync", None, TRUE)>> \o r.log]

\* rollback that does not hand `strict` on to the driver
rollback_ignores_strict(idx, strict, oks, junk) ==
    CASE cfg.mode = "Zfs" -> zfs_rollback(idx, FALSE, oks, junk)
      [] cfg.mode = "Btrfs" -> btrfs_rollback(idx, FALSE, oks, junk)
      [] cfg.mode = "External" -> Outcome("UnsupportedOperation", store, vol, <<>>)

\* rollback that does not hand `idx` on to the driver
rollback_latest(idx, strict, oks, junk) ==
    CASE cfg.mode = "Zfs" -> zfs_rollback(None, strict, oks, junk)
      [] cfg.mode = "Btrfs" -> btrfs_rollback(None, strict, oks, junk)
      [] cfg.mode = "External" -> Outcome("UnsupportedOperation", store, vol, <<>>)

\* BtmCfg::rollback
rollback(idx, strict, oks, junk) ==
    CASE cfg.mode = "Zfs" -> zfs_rollback(idx, strict, oks, junk)
      [] cfg.mode = "Btrfs" -> btrfs_rollback(idx, strict, oks, junk)
      [] cfg.mode = "External" -> Outcome("UnsupportedOperation", store, vol, <<>>)

\* get_sorted_snapshots with the External arm dispatching to a driver
get_sorted_snapshots_external_as_zfs ==
    CASE cfg.mode = "Zfs" -> zfs_sorted_snapshots
      [] cfg.mode = "Btrfs" -> btrfs_sorted_snapshots
      [] cfg.mode = "External" -> zfs_sorted_snapshots

\* get_sorted_snapshots in the order list_snapshots prints (ascending)
get_sorted_snapshots_asc ==
    CASE cfg.mode = "Zfs" -> [zfs_sorted_snapshots EXCEPT !.list = Rev(@)]
      [] cfg.mode = "Btrfs" -> [btrfs_sorted_snapshots EXCEPT !.list = Rev(@)]
      [] cfg.mode = "External" -> [res |-> "UnsupportedOperation", list |-> <<>>]

\* BtmCfg::get_sorted_snapshots
get_sorted_snapshots ==
    CASE cfg.mode = "Zfs" -> zfs_sorted_snapshots
      [] cfg.mode = "Btrfs" -> btrfs_sorted_snapshots
      [] cfg.mode = "External" -> [res |-> "UnsupportedOperation", list |-> <<>>]

\* the deletion command clean_snapshots builds for one height
delete_cmd(height) ==
    CASE cfg.mode = "Btrfs" ->
           "btrfs subvolume delete " \o cfg.volume \o "@" \o ToString(height)
      [] cfg.mode = "Zfs" ->
           "zfs destroy " \o cfg.volume \o "@" \o ToString(height)
      [] OTHER -> "panic: Unsupported deriver"

\* clean_order skipping the effective capacity instead of cap_clean_kept
clean_order_by_cap(list) == Rev(Skip(list, get_cap))

\* clean_snapshots without the rev(): the newest doomed height goes first
clean_order_newest_first(list) == Skip(list, cfg.cap_clean_kept)

\* the heights clean_snapshots visits, in the order it visits them
clean_order(list) == Rev(Skip(list, cfg.cap_clean_kept))

\* clean_snapshots giving up at the first deletion that fails
clean_snapshots_abort(failing) ==
    LET l == get_sorted_snapshots
        doomed == clean_order(l.list)
        bad == {i \in 1..Len(doomed) : doomed[i] \in failing}
        last == IF bad = {} THEN Len(doomed)
                ELSE CHOOSE i \in bad : \A k \in bad : i <= k
        done == SubSeq(doomed, 1, last)
    IN  IF l.res # "Ok" THEN Outcome(l.res, store, vol, <<>>)
        ELSE Outcome(IF bad = {} THEN "Ok" ELSE "SnapshotDeleteFailed",
                     [h \in Heights |->
                        IF h \in Range(done) /\ h \notin failing
                        THEN NoSnap ELSE store[h]],
                     vol,
                     [i \in 1..last |->
                        Ev(delete_cmd(done[i]), done[i], done[i] \notin failing)])

\* BtmCfg::clean_snapshots; the deletions of the heights in `failing` fail
clean_snapshots(failing) ==
    LET l == get_sorted_snapshots
        doomed == clean_order(l.list)
    IN  IF l.res # "Ok" THEN Outcome(l.res, store, vol, <<>>)
        ELSE Outcome("Ok",
                     [h \in Heights |->
                        IF h \in Range(doomed) /\ h \notin failing
                        THEN NoSnap ELSE store[h]],
                     vol,
                     [i \in 1..Len(doomed) |->
                        Ev(delete_cmd(doomed[i]), doomed[i],
                           doomed[i] \notin failing)])

\* guess_mode probing btrfs before zfs
guess_mode_btrfs_first(zfs_ok, btrfs_ok) ==
    IF btrfs_ok
    THEN [res |-> "Ok", mode |-> <<"Btrfs">>,
          log |-> <<Ev("btrfs::check", None, TRUE)>>]
    ELSE IF zfs_ok
    THEN [res |-> "Ok", mode |-> <<"Zfs">>,
          log |-> <<Ev("btrfs::check", None, FALSE), Ev("zfs::check", None, TRUE)>>]
    ELSE [res |-> "NoBackendDetected", mode |-> <<>>,
          log |-> <<Ev("btrfs::check", None, FALSE), Ev("zfs::check", None, FALSE)>>]

\* BtmCfg::guess_mode: zfs::check(volume), or else btrfs::check(volume)
guess_mode(zfs_ok, btrfs_ok) ==
    IF zfs_ok
    THEN [res |-> "Ok", mode |-> <<"Zfs">>,
          log |-> <<Ev("zfs::check", None, TRUE)>>]
    ELSE IF btrfs_ok
    THEN [res |-> "Ok", mode |-> <<"Btrfs">>,
          log |-> <<Ev("zfs::check", None, FALSE), Ev("btrfs::check", None, TRUE)>>]
    ELSE [res |-> "NoBackendDetected", mode |-> <<>>,
          log |-> <<Ev("zfs::check", None, FALSE), Ev("btrfs::check", None, FALSE)>>]

\* ----------------------------------------------- retention policy engine
RECURSIVE Pow(_, _)
Pow(b, e) == IF e = 0 THEN 1 ELSE b * Pow(b, e - 1)

\* first interval of band i, i \in 0..STEP_CNT: band i spans itv^i intervals
band_start ==
    [v \in ItvValues |->
       [i \in 0..STEP_CNT |->
          LET RECURSIVE Sum(_)
              Sum(j) == IF j = 0 THEN 0 ELSE Pow(v, j - 1) + Sum(j - 1)
          IN  Sum(i)]]

\* the band of a height, by its age below the most recent one;
\* STEP_CNT when it is older than the oldest band
band_of(newest, h) ==
    LET a == (newest - h) \div cfg.itv
        b == band_start[cfg.itv]
    IN  IF a >= b[STEP_CNT] THEN STEP_CNT
        ELSE CHOOSE i \in 0..(STEP_CNT - 1) : b[i] <= a /\ a < b[i + 1]

\* fair_kept keeping one height too many
fair_kept_one_more(list, capacity) ==
    IF capacity + 1 >= Len(list) THEN list ELSE SubSeq(list, 1, capacity + 1)

\* Fair: keep the `capacity` most recent heights
fair_kept(list, capacity) ==
    IF capacity >= Len(list) THEN list ELSE SubSeq(list, 1, capacity)

\* fade_kept without the capacity bound
fade_kept_untrimmed(list, capacity) ==
    IF list = <<>> THEN <<>>
    ELSE LET newest == list[1]
             Rep(h) == /\ band_of(newest, h) < STEP_CNT
                       /\ \A i \in 1..Len(list) :
                            band_of(newest, list[i]) = band_of(newest, h)
                              => list[i] <= h
         IN  SelectSeq(list, Rep)

\* fade_kept dropping the newest representatives first
fade_kept_drop_newest(list, capacity) ==
    IF list = <<>> THEN <<>>
    ELSE LET newest == list[1]
             Rep(h) == /\ band_of(newest, h) < STEP_CNT
                       /\ \A i \in 1..Len(list) :
                            band_of(newest, list[i]) = band_of(newest, h)
                              => list[i] <= h
             reps == SelectSeq(list, Rep)
         IN  IF capacity >= Len(reps) THEN reps
             ELSE SubSeq(reps, Len(reps) - capacity + 1, Len(reps))

\* Fade: the newest height of each band, the oldest of these dropped first
\* while there are more than `capacity`
fade_kept(list, capacity) ==
    IF list = <<>> THEN <<>>
    ELSE LET newest == list[1]
             Rep(h) == /\ band_of(newest, h) < STEP_CNT
                       /\ \A i \in 1..Len(list) :
                            band_of(newest, list[i]) = band_of(newest, h)
                              => list[i] <= h
             reps == SelectSeq(list, Rep)
         IN  fair_kept(reps, capacity)

\* select_for_deletion selecting nothing
select_nothing(list, capacity, algorithm) == <<>>

\* select_for_deletion(sorted_heights_desc, capacity, algorithm)
select_for_deletion(list, capacity, algorithm) ==
    LET kept == IF algorithm = "Fair" THEN fair_kept(list, capacity)
                ELSE fade_kept(list, capacity)
        Drop(h) == h \notin Range(kept)
    IN  SelectSeq(list, Drop)

\* what the Pruning state deletes after a create left `st`: the heights the
\* policy selects, oldest first
prune_order(st) ==
    Rev(select_for_deletion(SortDesc(Snaps(st)), get_cap, cfg.algo))

\* a snapshot request that opts in to pruning: Idle, Flushing, Creating, then
\* Pruning with the deletions of the heights in `failing` failing
snapshot_prune(idx, oks, failing) ==
    LET r == snapshot(idx, oks)
        doomed == prune_order(r.store)
    IN  IF ~cfg.enable \/ r.res # "Ok" \/ cfg.mode = "External" THEN r
        ELSE Outcome("Ok",
                     [h \in DOMAIN r.store |->
                        IF h \in Range(doomed) /\ h \notin failing
                        THEN NoSnap ELSE r.store[h]],
                     vol,
                     r.log \o
                     [i \in 1..Len(doomed) |->
                        Ev(delete_cmd(doomed[i]), doomed[i],
                           doomed[i] \notin failing)])

\* ------------------------------------------------------------ actions
Done(name, a, r, l) ==
    /\ op' = name
    /\ arg' = a
    /\ res' = r.res
    /\ store' = r.store
    /\ vol' = r.vol
    /\ log' = r.log
    /\ out' = l
    /\ UNCHANGED cfg

\* the tool outcomes that matter to a snapshot request
SnapshotOks == IF cfg.enable THEN OkSeqs ELSE {AllOk}

Snapshot ==
    \E h \in Heights, oks \in SnapshotOks :
        Done("snapshot", [idx |-> h, strict |-> FALSE], snapshot(h, oks), <<>>)

\* the tool outcomes that matter to a rollback request
RollbackOks(idx, strict) ==
    IF cfg.mode # "External" /\ Validate(idx, strict).res = "Ok"
    THEN {<<AllOk, vol>>} \cup
         ((IF cfg.mode = "Zfs" THEN {Fail1} ELSE {Fail1, Fail2}) \X Data)
    ELSE {<<AllOk, vol>>}

Rollback ==
    \E idx \in Heights \cup {None}, strict \in BOOLEAN :
        \E o \in RollbackOks(idx, strict) :
            Done("rollback", [idx |-> idx, strict |-> strict],
                 rollback(idx, strict, o[1], o[2]), <<>>)

List ==
    LET l == get_sorted_snapshots
    IN  Done("list", NoArg, Outcome(l.res, store, vol, <<>>), l.list)

Clean ==
    \E failing \in SUBSET Snaps(store) :
        Done("clean_snapshots", NoArg, clean_snapshots(failing), <<>>)

\* the node commits a block: the live contents of the volume change
Write ==
    \E d \in Data \ {vol} :
        /\ vol' = d
        /\ op' = "write" /\ arg' = NoArg /\ res' = "Ok" /\ log' = <<>> /\ out' = <<>>
        /\ UNCHANGED <<cfg, store>>

\* the embedding process sets a (public) field of its BtmCfg
Configure ==
    /\ \/ \E b \in BOOLEAN : cfg' = [cfg EXCEPT !.enable = b]
       \/ \E c \in CapValues : cfg' = [cfg EXCEPT !.cap = c]
       \/ \E k \in 0..MaxKept : cfg' = [cfg EXCEPT !.cap_clean_kept = k]
       \/ \E m \in Modes : cfg' = [cfg EXCEPT !.mode = m]
    /\ cfg' # cfg
    /\ op' = "configure" /\ arg' = NoArg /\ res' = "Ok" /\ log' = <<>> /\ out' = <<>>
    /\ UNCHANGED <<store, vol>>

Init ==
    /\ cfg = new
    /\ store = [h \in Heights |-> NoSnap]
    /\ vol = "A"
    /\ op = "new" /\ arg = NoArg /\ res = "Ok" /\ log = <<>> /\ out = <<>>

Next == Snapshot \/ Rollback \/ List \/ Clean \/ Write \/ Configure

Spec == Init /\ [][Next]_vars

\* ------------------------------------ the retention policy on its own
PolicyHeights == 0..MaxPolicyHeight

\* the policy is handed a descending list of heights and a configuration
InitPolicy ==
    /\ cfg \in [enable : {TRUE}, itv : ItvValues, cap : PolicyCaps \cup ClampCaps,
                cap_clean_kept : {0}, mode : {"Zfs"}, algo : Algos,
                volume : {"zfs/data"}]
    /\ out \in {SortDesc(S) : S \in SUBSET PolicyHeights}
    /\ log = <<>>
    /\ op = "input" /\ arg = NoArg /\ res = "Ok"
    /\ store = [h \in Heights |-> NoSnap]
    /\ vol = "A"

\* `log` receives the heights selected for deletion out of `out`
SelectForDeletion ==
    /\ op = "input"
    /\ op' = "select_for_deletion"
    /\ log' = select_for_deletion(out, get_cap, cfg.algo)
    /\ UNCHANGED <<cfg, store, vol, arg, res, out>>

\* the selected heights are deleted and the policy runs on the remainder
Rerun ==
    /\ op = "select_for_deletion"
    /\ op' = "rerun"
    /\ LET Kept(h) == h \notin Range(log)
           rest == SelectSeq(out, Kept)
       IN  /\ out' = rest
           /\ log' = select_for_deletion(rest, get_cap, cfg.algo)
    /\ UNCHANGED <<cfg, store, vol, arg, res>>

NextPolicy == SelectForDeletion \/ Rerun

SpecPolicy == InitPolicy /\ [][NextPolicy]_vars

\* ------------------------------------------- a node session on a volume
NodeHeights == 0..MaxNodeHeight
NodeCaps == (0..MaxNodeCap) \cup {DefaultCap}

\* a session starts on an empty volume with a configuration of its own
InitNode ==
    /\ cfg \in [enable : BOOLEAN, itv : ItvValues, cap : NodeCaps,
                cap_clean_kept : {0}, mode : Modes, algo : Algos,
                volume : {"zfs/data"}]
    /\ store = [h \in NodeHeights |-> NoSnap]
    /\ vol = "A"
    /\ op = "new" /\ arg = NoArg /\ res = "Ok" /\ log = <<>> /\ out = <<>>

\* the deletions that may fail in the pruning pass of a request: none, or
\* one of those the pass issues
PruneFailures(h, oks) ==
    IF cfg.enable /\ cfg.mode # "External"
    THEN {{}} \cup {{x} : x \in Range(prune_order(snapshot(h, oks).store))}
    ELSE {{}}

SnapshotPrune ==
    \E h \in NodeHeights, oks \in SnapshotOks :
        \E failing \in PruneFailures(h, oks) :
            Done("snapshot_prune", [idx |-> h, strict |-> FALSE],
                 snapshot_prune(h, oks, failing), <<>>)

\* the mode is guessed from the probes of the volume
GuessMode ==
    \E zfs_ok \in BOOLEAN, btrfs_ok \in BOOLEAN :
        LET g == guess_mode(zfs_ok, btrfs_ok)
        IN  /\ op' = "guess_mode"
            /\ arg' = [idx |-> None, strict |-> FALSE,
                       zfs_ok |-> zfs_ok, btrfs_ok |-> btrfs_ok]
            /\ res' = g.res
            /\ out' = g.mode
            /\ log' = g.log
            /\ UNCHANGED <<cfg, store, vol>>

NextNode == SnapshotPrune \/ GuessMode

SpecNode == InitNode /\ [][NextNode]_vars

TypeOK ==
    /\ cfg \in BtmCfg
    /\ store \in [Heights -> Data \cup {NoSnap}]
    /\ vol \in Data

\* =============================================================== claims
\* the k greatest heights of S (all of S when it has fewer)
TopK(S, k) == {h \in S : Cardinality({g \in S : g > h}) < k}

StrictlyDesc(l) == \A i \in 1..(Len(l) - 1) : l[i] > l[i + 1]

Newer(S, t) == {n \in S : n > t}

\* C1: a strict rollback to a retained height that has a newer retained
\* snapshot is rejected (StrictRollbackRejected by a driver; External refuses
\* every rollback with UnsupportedOperation), and neither the volume nor the
\* snapshot set changes.
C1_StrictRollbackRejected ==
    [][(/\ op' = "rollback"
        /\ arg'.strict
        /\ arg'.idx \in Snaps(store)
        /\ Newer(Snaps(store), arg'.idx) # {})
       => /\ res' = IF cfg.mode = "External" THEN "UnsupportedOperation"
                    ELSE "StrictRollbackRejected"
          /\ store' = store
          /\ vol' = vol]_vars

\* strict rollback to the middle of three snapshots was rejected
C1_Witness ==
    /\ op = "rollback" /\ res = "StrictRollbackRejected"
    /\ arg.strict /\ arg.idx = 1
    /\ Snaps(store) = {0, 1, 2}
    /\ cfg.mode = "Zfs"

\* C2: a successful non-strict rollback to a retained height leaves the
\* volume with the target's contents, and the snapshot set is then the target
\* and the older heights retained before: no height above the target remains.
C2_NonStrictRollbackDiscardsFuture ==
    [][(/\ op' = "rollback"
        /\ ~arg'.strict
        /\ arg'.idx \in Snaps(store)
        /\ res' = "Ok")
       => /\ vol' = store[arg'.idx]
          /\ Snaps(store') = {h \in Snaps(store) : h <= arg'.idx}]_vars

\* C3: with enable = false, clean_snapshots returns success and leaves the
\* snapshot set as it was, in every mode and for every cap_clean_kept.
C3_DisabledPruneNoop ==
    [][(op' = "clean_snapshots" /\ ~cfg.enable)
       => /\ res' = "Ok"
          /\ store' = store]_vars

\* C4: with enable = false, snapshot(h) returns success without a sync and
\* without any driver command, and the snapshot set and volume are unchanged.
C4_DisabledSnapshotNoop ==
    [][(op' = "snapshot" /\ ~cfg.enable)
       => /\ res' = "Ok"
          /\ log' = <<>>
          /\ store' = store
          /\ vol' = vol]_vars

\* a disabled snapshot request for a height that is not retained returned Ok
C4_Witness ==
    /\ op = "snapshot" /\ res = "Ok" /\ ~cfg.enable
    /\ cfg.mode = "Btrfs"
    /\ Snaps(store) # {} /\ arg.idx \notin Snaps(store)

\* C5: with enable = false, rollback returns success for every argument and
\* leaves the volume and the snapshot set unchanged.
C5_DisabledRollbackNoop ==
    [][(op' = "rollback" /\ ~cfg.enable)
       => /\ res' = "Ok"
          /\ store' = store
          /\ vol' = vol]_vars

\* C6: in External mode, listing and rollback fail with UnsupportedOperation
\* whatever the arguments and the state, doing nothing; an enabled snapshot
\* request syncs, calls the external driver for that height, and succeeds
\* exactly when the driver does.
C6_ExternalModeGap ==
    [][(cfg.mode = "External")
       => /\ (op' \in {"list", "rollback"})
              => /\ res' = "UnsupportedOperation"
                 /\ log' = <<>> /\ out' = <<>>
                 /\ store' = store /\ vol' = vol
          /\ (op' = "snapshot" /\ cfg.enable)
              => /\ Len(log') = 2
                 /\ log'[1].cmd = "sync"
                 /\ log'[2].cmd = "external::gen_snapshot"
                 /\ log'[2].h = arg'.idx
                 /\ (res' = "Ok") <=> log'[2].ok]_vars

\* in External mode a rollback to a retained height was refused
C6_Witness ==
    /\ cfg.mode = "External"
    /\ op = "rollback" /\ res = "UnsupportedOperation"
    /\ arg.idx \in Snaps(store)

\* C7: a rollback to an explicit height that is not retained fails, strict or
\* not (TargetNotFound by a driver; UnsupportedOperation in External mode),
\* and no command is run: volume and snapshot set are unchanged.
C7_ValidateBeforeRevert ==
    [][(/\ op' = "rollback"
        /\ arg'.idx \in Heights
        /\ arg'.idx \notin Snaps(store))
       => /\ res' = IF cfg.mode = "External" THEN "UnsupportedOperation"
                    ELSE "TargetNotFound"
          /\ log' = <<>>
          /\ store' = store
          /\ vol' = vol]_vars

\* a non-strict rollback to a missing height, with other snapshots retained,
\* was refused
C7_Witness ==
    /\ op = "rollback" /\ res = "TargetNotFound"
    /\ ~arg.strict /\ arg.idx \in Heights
    /\ Snaps(store) # {} /\ arg.idx \notin Snaps(store)

Created ==
    /\ op = "snapshot" /\ res = "Ok" /\ log # <<>>
    /\ cfg.mode # "External"

EffCap == IF cfg.cap <= CAP_MAX THEN cfg.cap ELSE CAP_MAX

\* C11: under Fair the heights kept are exactly the min(c, |set|) most recent
\* of the input and all the others are selected for deletion; run again on
\* the kept heights, Fair selects nothing.
C11_FairRetention ==
    cfg.algo = "Fair" =>
        /\ op = "select_for_deletion" =>
             /\ Range(out) \ Range(log) = TopK(Range(out), EffCap)
             /\ Range(log) = Range(out) \ TopK(Range(out), EffCap)
             /\ Cardinality(Range(out) \ Range(log)) =
                  IF EffCap < Len(out) THEN EffCap ELSE Len(out)
        /\ op = "rerun" => log = <<>>

\* Fair with capacity 2 was run again on the two heights it kept out of four
C11_Witness ==
    /\ op = "rerun" /\ cfg.algo = "Fair" /\ cfg.cap = 2
    /\ out = <<9, 6>>

\* C12 as stated: whatever the capacity c, zero included, Fade keeps at most c
\* heights and always keeps the most recent height of its input.
C12_FadeBound ==
    (op = "select_for_deletion" /\ cfg.algo = "Fade") =>
        LET kept == Range(out) \ Range(log)
        IN  /\ Cardinality(kept) <= EffCap
            /\ out # <<>> => out[1] \in kept

\* C12 amended: Fade keeps at most c heights, and keeps the most recent
\* height of its input whenever c >= 1.
C12_FadeBoundAmended ==
    (op = "select_for_deletion" /\ cfg.algo = "Fade") =>
        LET kept == Range(out) \ Range(log)
        IN  /\ Cardinality(kept) <= EffCap
            /\ (out # <<>> /\ EffCap >= 1) => out[1] \in kept

\* Fade with interval 2 and capacity 2 cut three band representatives
\* (10, 8, 4) down to the two most recent
C12_Witness ==
    /\ op = "select_for_deletion" /\ cfg.algo = "Fade"
    /\ cfg.itv = 2 /\ cfg.cap = 2
    /\ out = <<10, 9, 8, 7, 4, 3>>
    /\ log = <<9, 7, 4, 3>>

\* C13: once the heights Fade selected are removed, Fade run again on the
\* remainder, with the same interval and capacity, selects nothing.
C13_FadeStability ==
    (op = "rerun" /\ cfg.algo = "Fade") => log = <<>>

\* Fade with interval 1 was run again on the four heights it had kept
C13_Witness ==
    /\ op = "rerun" /\ cfg.algo = "Fade"
    /\ cfg.itv = 1 /\ cfg.cap = DefaultCap
    /\ out = <<10, 9, 5, 1>>

\* the events of a snapshot request that belong to its pruning pass (after
\* the sync and the two commands of the create)
PruneEvents(l) == SubSeq(l, 4, Len(l))

\* a snapshot request with pruning completed, all its deletions succeeding
Pruned ==
    /\ op = "snapshot_prune" /\ res = "Ok"
    /\ cfg.enable /\ cfg.mode # "External"
    /\ \A i \in 4..Len(log) : log[i].ok

\* C14: from an empty volume, whenever a snapshot request with automatic
\* pruning (Fair or Fade) completes with all its deletions succeeding, at
\* most min(cap, CAP_MAX) snapshots are retained.
C14_RetainedWithinCapacity ==
    Pruned => Cardinality(Snaps(store)) <= EffCap

\* a Fade pruning pass with capacity 2 deleted two snapshots and left two
C14_Witness ==
    /\ Pruned
    /\ cfg.algo = "Fade" /\ cfg.cap = 2
    /\ Len(PruneEvents(log)) = 2
    /\ Cardinality(Snaps(store)) = 2

\* C15: the effective capacity is the configured one when it is below
\* CAP_MAX = 4096, and 4096 otherwise: 10000 gives 4096, 4096 gives 4096.
C15_CapacityClamp ==
    /\ CAP_MAX = 4096
    /\ cfg.cap < 4096 => get_cap = cfg.cap
    /\ cfg.cap >= 4096 => get_cap = 4096
    /\ cfg.cap = 10000 => get_cap = 4096

\* the policy ran with a configured capacity of 10000
C15_Witness ==
    /\ op = "select_for_deletion"
    /\ cfg.cap = 10000
    /\ get_cap = 4096

\* C17: guess_mode returns Zfs whenever the zfs probe succeeds, whatever the
\* btrfs probe would say; Btrfs exactly when the zfs probe fails and the btrfs
\* probe succeeds; an error when both fail; and never External.
C17_GuessModePriority ==
    op = "guess_mode" =>
        /\ arg.zfs_ok => (res = "Ok" /\ out = <<"Zfs">>)
        /\ (out = <<"Btrfs">>) <=> (~arg.zfs_ok /\ arg.btrfs_ok)
        /\ (~arg.zfs_ok /\ ~arg.btrfs_ok) => (res # "Ok" /\ out = <<>>)
        /\ out # <<"External">>

\* both probes would succeed and Zfs was returned
C17_Witness ==
    /\ op = "guess_mode"
    /\ arg.zfs_ok /\ arg.btrfs_ok
    /\ out = <<"Zfs">>

\* C16: a snapshot request with enable = true, in every mode, syncs first and
\* calls the driver's create after it; a request that calls the driver's
\* create has synced before.
C16_FlushBeforeCreate ==
    op = "snapshot" =>
        /\ cfg.enable =>
             /\ Len(log) >= 2
             /\ log[1] = Ev("sync", None, TRUE)
             /\ \A i \in 2..Len(log) : log[i].cmd # "sync"
        /\ \A i \in 1..Len(log) :
             log[i].cmd # "sync" => \E j \in 1..(i - 1) : log[j].cmd = "sync"

\* an enabled External request synced, then had the tool take the snapshot
C16_Witness ==
    /\ op = "snapshot" /\ cfg.enable /\ cfg.mode = "External"
    /\ log = <<Ev("sync", None, TRUE), Ev("external::gen_snapshot", arg.idx, TRUE)>>

\* the heights clean_snapshots selects out of the retained set S
Selected(S) == S \ TopK(S, cfg.cap_clean_kept)

\* C18: whichever deletions fail, a clean_snapshots in a driver mode attempts
\* the deletion of every selected height once, returns Ok, leaves every
\* snapshot that was not selected as it was, and leaves a snapshot whose
\* deletion failed in place.
C18_PruneBestEffort ==
    [][(op' = "clean_snapshots" /\ cfg.mode # "External")
       => /\ res' = "Ok"
          /\ Range([i \in 1..Len(log') |-> log'[i].h]) = Selected(Snaps(store))
          /\ Len(log') = Cardinality(Selected(Snaps(store)))
          /\ \A h \in Heights \ Selected(Snaps(store)) : store'[h] = store[h]
          /\ \A i \in 1..Len(log') :
               IF log'[i].ok THEN store'[log'[i].h] = NoSnap
               ELSE store'[log'[i].h] = store[log'[i].h]]_vars

\* with three snapshots and cap_clean_kept = 1 the deletion of 0 failed, the
\* one of 1 was still made, and 2 was left alone
C18_Witness ==
    /\ op = "clean_snapshots" /\ res = "Ok"
    /\ cfg.cap_clean_kept = 1
    /\ Len(log) = 2
    /\ log[1].h = 0 /\ ~log[1].ok
    /\ log[2].h = 1 /\ log[2].ok
    /\ Snaps(store) = {0, 2}

\* the heights deleted by the first n deletions of a pass
DeletedBy(l, n) == {l[i].h : i \in {j \in 1..n : l[j].ok}}

\* the heights whose deletion was issued among the first n of a pass
IssuedBy(l, n) == {l[i].h : i \in 1..n}

\* the deletions of a pass are issued in strictly ascending height order
Ascending(l) == \A i, j \in 1..Len(l) : i < j => l[i].h < l[j].h

SnapshotName(h) == cfg.volume \o "@" \o ToString(h)

\* C20: in External mode clean_snapshots returns the error of
\* get_sorted_snapshots, builds no command and deletes nothing; in Zfs and
\* Btrfs mode the command of every selected height is the tool's delete
\* command for exactly "<volume>@<height>"; the panicking branch is never
\* taken.
C20_UnsupportedDriverUnreachable ==
    [][op' = "clean_snapshots"
       => /\ cfg.mode = "External" =>
               /\ res' = "UnsupportedOperation"
               /\ log' = <<>>
               /\ store' = store
          /\ \A i \in 1..Len(log') :
               /\ log'[i].cmd # "panic: Unsupported deriver"
               /\ log'[i].h \in Selected(Snaps(store))
               /\ cfg.mode = "Zfs" =>
                    log'[i].cmd = "zfs destroy " \o SnapshotName(log'[i].h)
               /\ cfg.mode = "Btrfs" =>
                    log'[i].cmd =
                      "btrfs subvolume delete " \o SnapshotName(log'[i].h)]_vars

\* a Btrfs pass deleted the snapshot at height 2 of zfs/data
C20_Witness ==
    /\ op = "clean_snapshots" /\ cfg.mode = "Btrfs"
    /\ log # <<>>
    /\ log[Len(log)].cmd = "btrfs subvolume delete zfs/data@2"

====
